---------------------------- MODULE Spec2Model ----------------------------
(***************************************************************************)
(* The message-send / response lifecycle of the Chat component             *)
(* (frontend/chatbot-ui/src/Chat.jsx).                                     *)
(*                                                                         *)
(* React state is modelled in two layers:                                  *)
(*   - messages, input, loading: the state of the three useState hooks     *)
(*     with every update issued so far applied (a setter's effect);        *)
(*   - view: the values the last committed render bound to the constants   *)
(*     `messages`, `input`, `loading`; the closures sendMessage and        *)
(*     handleKeyDown created by that render read these, not the hooks.     *)
(* Render commits the hooks' state into a new view.  React schedules it,   *)
(* the component does not: it is a step of its own.                        *)
(*                                                                         *)
(* Strings are TLA+ strings.  The two non-ASCII characters of the source   *)
(* literals are written as their JavaScript escapes (\\uXXXX).             *)
(***************************************************************************)
EXTENDS Integers, Sequences, FiniteSets, TLC

VARIABLES messages, input, loading, view, calls, requests,
          attempts, sendsInRender, lastSend

vars == <<messages, input, loading, view, calls, requests,
          attempts, sendsInRender, lastSend>>

(***************************************************************************)
(* Bounds and input domains                                                *)
(***************************************************************************)
\* number of sendMessage invocations (accepted or not) explored
MaxCalls == 2

\* values the textarea can hold (onChange)
Inputs == {"", " \n", " a"}

\* reply values of the backend
Replies == {"X", " **r** "}

(***************************************************************************)
(* Program constants                                                       *)
(***************************************************************************)
API_URL == "http://127.0.0.1:8000/chat"

InitialMessages ==
    << [role |-> "bot",
        text |-> "Hello! I'm your Enterprise Data Assistant.How can I help you? \\uD83C\\uDF2A\\uFE0F"] >>

(***************************************************************************)
(* String.prototype.trim                                                   *)
(***************************************************************************)
IsWhiteSpace(c) == c \in {" ", "\t", "\n", "\r", "\f"}

RECURSIVE trimStart(_)
trimStart(s) ==
    IF Len(s) > 0 /\ IsWhiteSpace(Head(s)) THEN trimStart(Tail(s)) ELSE s

RECURSIVE trimEnd(_)
trimEnd(s) ==
    IF Len(s) > 0 /\ IsWhiteSpace(SubSeq(s, Len(s), Len(s)))
    THEN trimEnd(SubSeq(s, 1, Len(s) - 1))
    ELSE s

trim(s) == trimEnd(trimStart(s))


(***************************************************************************)
(* The pieces of sendMessage                                               *)
(***************************************************************************)
\* guard without the busy test: if (!input.trim()) return
guard_NoBusy(in, ld) == trim(in) = ""

\* guard without the trim: if (!input || loading) return
guard_NoTrim(in, ld) == in = "" \/ ld

\* line 21: the early return, on the values the enclosing render captured
guard(in, ld) == trim(in) = "" \/ ld

\* lines 87-91: the send button's disabled attribute
disabled(in, ld) == ld \/ trim(in) = ""

\* the updater written on the render's constant: setMessages([...messages, m])
addMessage_Captured(prev, scope, m) == Append(scope.messages, m)

\* lines 25, 41, 43: the functional updater prev => [...prev, m]; scope is the
\* closure it is written in (scope.messages is the render's `messages`)
addMessage(prev, scope, m) == Append(prev, m)

\* line 25: the user record
userMessage(userText) == [role |-> "user", text |-> userText]

\* the payload built from the trimmed text
fetchArgs_Trimmed(userText) ==
    [url |-> API_URL, method |-> "POST", body |-> [message |-> trim(userText)]]

\* lines 30-34: the arguments of fetch; the body is the object handed to
\* JSON.stringify
fetchArgs(userText) ==
    [url |-> API_URL, method |-> "POST", body |-> [message |-> userText]]

\* the reply trimmed before it is stored
botMessage_Trimmed(data) == [role |-> "bot", text |-> trim(data.reply)]

\* line 41: the bot record of a parsed body
botMessage(data) == [role |-> "bot", text |-> data.reply]

\* the catch block showing the exception's message
errorMessage_FromException == [role |-> "bot", text |-> "Network Error"]

\* lines 43-46: the record appended by the catch block
errorMessage ==
    [role |-> "bot",
     text |-> "\\u26A0\\uFE0F **System Error:** Unable to reach the backend. Is the server running?"]

\* a catch that rethrows everything but the rejection of fetch
caught_OnlyNetwork(err) == err = "TypeError: Failed to fetch"

\* line 42: catch (e) has no condition, it handles every thrown value
caught(err) == TRUE

\* no finally block: loading keeps its value
finallyLoading_Missing == loading

\* line 48: the value the finally block sets loading to
finallyLoading == FALSE

(***************************************************************************)
(* What the network can answer                                             *)
(***************************************************************************)
NoData == [type |-> "none", reply |-> ""]

\* a response body: unparsable, the JSON value null, or an object {reply: X}
Bodies ==
    {[valid |-> FALSE, data |-> NoData],
     [valid |-> TRUE, data |-> [type |-> "null", reply |-> ""]]}
    \cup {[valid |-> TRUE, data |-> [type |-> "object", reply |-> x]] : x \in Replies}

EmptyBody == [valid |-> FALSE, data |-> NoData]

\* fetch rejects (network exception) or resolves with a response
Outcomes ==
    {[kind |-> "reject", ok |-> FALSE, body |-> EmptyBody],
     [kind |-> "response", ok |-> FALSE, body |-> EmptyBody]}
    \cup {[kind |-> "response", ok |-> TRUE, body |-> b] : b \in Bodies}

NoOutcome == [kind |-> "none", ok |-> FALSE, body |-> EmptyBody]

Scope == [input |-> input, loading |-> loading, messages |-> messages]

Init ==
    /\ messages = InitialMessages
    /\ input = ""
    /\ loading = FALSE
    /\ view = [input |-> "", loading |-> FALSE, messages |-> InitialMessages]
    /\ calls = << >>
    /\ requests = << >>
    /\ attempts = 0
    /\ sendsInRender = 0
    /\ lastSend = [busy |-> FALSE, blank |-> FALSE, accepted |-> FALSE]

(***************************************************************************)
(* React commits a render: the closures of the next events see the         *)
(* hooks' state                                                            *)
(***************************************************************************)
Render ==
    /\ view # Scope
    /\ view' = Scope
    /\ sendsInRender' = 0
    /\ UNCHANGED <<messages, input, loading, calls, requests, attempts, lastSend>>

\* line 84: onChange={e => setInput(e.target.value)}
OnChange(v) ==
    /\ v # input
    /\ input' = v
    /\ UNCHANGED <<messages, loading, view, calls, requests, attempts,
                   sendsInRender, lastSend>>

(***************************************************************************)
(* sendMessage up to its first await (lines 20-34)                         *)
(***************************************************************************)
sendMessage ==
    /\ attempts < MaxCalls
    /\ attempts' = attempts + 1
    /\ lastSend' = [busy |-> view.loading, blank |-> trim(view.input) = "",
                    accepted |-> ~guard(view.input, view.loading)]
    /\ UNCHANGED view
    /\ IF guard(view.input, view.loading)
       THEN UNCHANGED <<messages, input, loading, calls, requests, sendsInRender>>
       ELSE LET userText == view.input IN
            /\ messages' = addMessage(messages, view, userMessage(userText))
            /\ input' = ""
            /\ loading' = TRUE
            /\ requests' = Append(requests, fetchArgs(userText))
            /\ calls' = Append(calls,
                   [userText |-> userText, scope |-> view, pc |-> "fetch",
                    res |-> NoOutcome, promise |-> "pending",
                    userIdx |-> Len(messages'), botIdx |-> 0])
            /\ sendsInRender' = sendsInRender + 1

\* lines 87-91: a click on the send button; a disabled button fires no click
ClickSend ==
    /\ ~disabled(view.input, view.loading)
    /\ sendMessage

\* lines 53-58
handleKeyDown(key, shiftKey) ==
    IF key = "Enter" /\ ~shiftKey
    THEN sendMessage
    ELSE UNCHANGED vars

Keys == {"Enter", "a"}

(***************************************************************************)
(* The rest of sendMessage: lines 36-49                                    *)
(***************************************************************************)
\* the try block ended at line 41 (threw = FALSE, data parsed) or threw err;
\* then catch (42-46) and finally (47-49), and the async function's promise
\* settles
finish(i, o, threw, err, data) ==
    /\ IF threw /\ ~caught(err)
       THEN /\ messages' = messages
            /\ calls' = [calls EXCEPT ![i].pc = "done", ![i].promise = "rejected",
                                      ![i].res = o]
       ELSE /\ messages' = addMessage(messages, calls[i].scope,
                               IF threw THEN errorMessage ELSE botMessage(data))
            /\ calls' = [calls EXCEPT ![i].pc = "done", ![i].promise = "fulfilled",
                                      ![i].res = o, ![i].botIdx = Len(messages')]
    /\ loading' = finallyLoading
    /\ UNCHANGED <<input, view, requests, attempts, sendsInRender, lastSend>>

\* line 36: what a response makes the code throw before it reads the body
statusThrows(res) == ~res.ok

\* the promise of fetch settles (line 30) and sendMessage resumes
FetchSettles(i, o) ==
    /\ i \in DOMAIN calls
    /\ calls[i].pc = "fetch"
    /\ IF o.kind = "reject"
       THEN finish(i, o, TRUE, "TypeError: Failed to fetch", NoData)
       ELSE IF statusThrows(o)
            THEN finish(i, o, TRUE, "Error: Network Error", NoData)
            ELSE \* line 38: await res.json()
                 /\ calls' = [calls EXCEPT ![i].pc = "json", ![i].res = o]
                 /\ UNCHANGED <<messages, input, loading, view, requests,
                                attempts, sendsInRender, lastSend>>

\* the promise of res.json() settles (line 38) and sendMessage resumes
JsonSettles(i) ==
    /\ i \in DOMAIN calls
    /\ calls[i].pc = "json"
    /\ LET o == calls[i].res
           body == o.body IN
       IF ~body.valid
       THEN finish(i, o, TRUE, "SyntaxError", NoData)
       ELSE IF body.data.type = "null"
            THEN finish(i, o, TRUE, "TypeError: data is null", NoData)
            ELSE finish(i, o, FALSE, "", body.data)

Next ==
    \/ Render
    \/ \E v \in Inputs : OnChange(v)
    \/ ClickSend
    \/ \E k \in Keys, s \in BOOLEAN : handleKeyDown(k, s)
    \/ \E i \in 1..MaxCalls, o \in Outcomes : FetchSettles(i, o)
    \/ \E i \in 1..MaxCalls : JsonSettles(i)

Spec == Init /\ [][Next]_vars

(***************************************************************************)
(* Vocabulary of the properties                                            *)
(***************************************************************************)
Done(c, i) == i \in DOMAIN c /\ c[i].pc = "done"

\* invocations that issued a request and have not run their finally block
Outstanding == Cardinality({i \in DOMAIN calls : calls[i].pc # "done"})

\* invocation i finishes in this step
Completes(i) == i \in DOMAIN calls /\ calls[i].pc # "done" /\ calls'[i].pc = "done"

\* this step is an invocation of sendMessage
SendAttempted == attempts' # attempts

IsBlank(s) == \A k \in 1..Len(s) : SubSeq(s, k, k) \in {" ", "\t", "\n", "\r", "\f"}

IsUser(m) == m.role = "user"

UserRecords == SelectSeq(messages, IsUser)

\* the request failed: fetch rejected, or the response has a non-success status
Failed(o) == o.kind = "reject" \/ (o.kind = "response" /\ ~o.ok)

\* the request resolved with a success status and a body {reply: X}
Replied(o) ==
    o.kind = "response" /\ o.ok /\ o.body.valid /\ o.body.data.type = "object"

SendFrame == UNCHANGED <<messages, input, loading, requests, calls>>

(***************************************************************************)
(* C1: in every reachable state at most one request is outstanding, and    *)
(* loading (the hook's state, every update issued so far applied) is true  *)
(* exactly when one is.                                                    *)
(***************************************************************************)
C1_SingleOutstanding ==
    /\ Outstanding \in {0, 1}
    /\ loading <=> (Outstanding = 1)

(***************************************************************************)
(* C2: a send invoked with a non-blank input while the busy flag it reads  *)
(* is false appends exactly the user record of that input; the step that   *)
(* finishes an invocation appends exactly one bot record, after the        *)
(* invocation's user record; no other step changes the length, so the      *)
(* conversation holds the greeting, one user record per accepted send and  *)
(* one bot record per finished one.                                        *)
(***************************************************************************)
C2_TwoRecordsPerSend ==
    [][/\ (SendAttempted /\ ~IsBlank(view.input) /\ ~view.loading)
            => /\ messages' = Append(messages, [role |-> "user", text |-> view.input])
               /\ Len(calls') = Len(calls) + 1
       /\ \A i \in DOMAIN calls : Completes(i)
            => /\ Len(messages') = Len(messages) + 1
               /\ messages'[Len(messages')].role = "bot"
               /\ calls'[i].botIdx = Len(messages')
               /\ calls'[i].userIdx < calls'[i].botIdx
               /\ messages'[calls'[i].userIdx] = [role |-> "user", text |-> calls'[i].userText]
       /\ Len(messages') = 1 + Len(calls')
                             + Cardinality({i \in DOMAIN calls' : calls'[i].pc = "done"})
      ]_vars

C2_Witness ==
    /\ Len(calls) = 2
    /\ \A i \in DOMAIN calls : calls[i].pc = "done"
    /\ Len(messages) = 5

(***************************************************************************)
(* C3: a send attempted while the busy flag it reads is true changes       *)
(* neither the conversation, the busy flag, the input text nor the         *)
(* requests issued.                                                        *)
(***************************************************************************)
C3_BusySendIsNoOp ==
    [][(SendAttempted /\ view.loading) => SendFrame]_vars

C3_Witness ==
    /\ attempts > 0
    /\ lastSend.busy /\ ~lastSend.blank
    /\ Outstanding = 1

(***************************************************************************)
(* C4 as stated: the bot record of a failed request has the text           *)
(* "System Error: Unable to reach the backend. Is the server running?".    *)
(***************************************************************************)
C4_SpecFallback ==
    \A i \in DOMAIN calls :
        (calls[i].pc = "done" /\ Failed(calls[i].res))
            => /\ calls[i].botIdx > 0
               /\ messages[calls[i].botIdx].text
                    = "System Error: Unable to reach the backend. Is the server running?"

(***************************************************************************)
(* C4 amended: the bot record of a failed request has the text of the      *)
(* source's literal, which starts with U+26A0 U+FE0F and marks             *)
(* "System Error:" as bold.                                                *)
(***************************************************************************)
C4_CodeFallback ==
    \A i \in DOMAIN calls :
        (calls[i].pc = "done" /\ Failed(calls[i].res))
            => /\ calls[i].botIdx > 0
               /\ messages[calls[i].botIdx]
                    = [role |-> "bot",
                       text |-> "\\u26A0\\uFE0F **System Error:** Unable to reach the backend. Is the server running?"]

C4_Witness ==
    /\ \E i \in DOMAIN calls : calls[i].pc = "done" /\ calls[i].res.kind = "reject"
    /\ \E i \in DOMAIN calls :
          calls[i].pc = "done" /\ calls[i].res.kind = "response" /\ ~calls[i].res.ok

(***************************************************************************)
(* C5: whichever way the request resolves, the step that ends the          *)
(* invocation appends a bot record and leaves loading false, both in that  *)
(* one step, and the promise of sendMessage is fulfilled: no invocation    *)
(* ever ends rejected, and one whose response arrived only awaits the      *)
(* body.                                                                   *)
(***************************************************************************)
C5_AlwaysSettlesLocally ==
    [][\A i \in DOMAIN calls :
          /\ Completes(i)
                => /\ calls'[i].promise = "fulfilled"
                   /\ loading' = FALSE
                   /\ Len(messages') = Len(messages) + 1
                   /\ messages'[Len(messages')].role = "bot"
          /\ calls'[i].promise # "rejected"
          /\ (calls[i].pc # calls'[i].pc /\ ~Completes(i))
                => (calls[i].pc = "fetch" /\ calls'[i].pc = "json" /\ calls'[i].res.ok)
      ]_vars

C5_Witness ==
    /\ ~loading
    /\ \E i \in DOMAIN calls :
          /\ calls[i].pc = "done" /\ calls[i].res.ok /\ ~calls[i].res.body.valid
          /\ calls[i].promise = "fulfilled"
    /\ \E i \in DOMAIN calls : calls[i].pc = "done" /\ Failed(calls[i].res)

\* The hypothesis of C5 as fairness: the promise of fetch, and then the
\* promise of res.json(), of every invocation settles.
SpecLive ==
    /\ Spec
    /\ \A i \in 1..MaxCalls :
          /\ WF_vars(\E o \in Outcomes : FetchSettles(i, o))
          /\ WF_vars(JsonSettles(i))

\* C5, the liveness reading (under SpecLive): every accepted send leads to a
\* state where its invocation has ended, loading is false and its bot record
\* is in the conversation.
C5_EventuallySettles ==
    \A i \in 1..MaxCalls :
        (i \in DOMAIN calls)
           ~> (/\ Done(calls, i) /\ ~loading /\ calls[i].botIdx > 0
               /\ messages[calls[i].botIdx].role = "bot")

(***************************************************************************)
(* C6: the bot record of a request that resolved with a success status     *)
(* and a body {reply: X} has the text X.                                   *)
(***************************************************************************)
C6_ReplyRoundTrip ==
    \A i \in DOMAIN calls :
        (calls[i].pc = "done" /\ Replied(calls[i].res))
            => /\ calls[i].botIdx > 0
               /\ messages[calls[i].botIdx]
                    = [role |-> "bot", text |-> calls[i].res.body.data.reply]

C6_Witness ==
    \E i \in DOMAIN calls :
        /\ calls[i].pc = "done" /\ Replied(calls[i].res)
        /\ calls[i].res.body.data.reply = " **r** "

(***************************************************************************)
(* C7: every step leaves the conversation as it is or appends one record   *)
(* to the conversation as it is at that step; nothing is removed,          *)
(* reordered or changed.                                                   *)
(***************************************************************************)
C7_AppendOnly ==
    [][\/ messages' = messages
       \/ /\ Len(messages') = Len(messages) + 1
          /\ SubSeq(messages', 1, Len(messages)) = messages]_vars

\* a finished invocation whose render saw fewer records than the conversation
\* held when its bot record was appended
C7_Witness ==
    \E i \in DOMAIN calls :
        /\ calls[i].pc = "done"
        /\ calls[i].botIdx > Len(calls[i].scope.messages) + 2

(***************************************************************************)
(* C8: the requests issued are, in order, one per user record of the       *)
(* conversation, each a POST to the endpoint whose payload message is      *)
(* that record's text; none is issued again after a failure.               *)
(***************************************************************************)
C8_OneRequestPerUserRecord ==
    /\ Len(requests) = Len(UserRecords)
    /\ Len(requests) = Len(calls)
    /\ \A k \in DOMAIN requests :
          requests[k] = [url |-> "http://127.0.0.1:8000/chat", method |-> "POST",
                         body |-> [message |-> UserRecords[k].text]]

C8_Witness ==
    /\ Len(requests) = 2
    /\ \E i \in DOMAIN calls : calls[i].pc = "done" /\ Failed(calls[i].res)
    /\ requests[1].body.message = " a"

(***************************************************************************)
(* C9: a send invoked with an empty or whitespace-only input changes       *)
(* neither the conversation, the busy flag, the input text nor the         *)
(* requests issued.                                                        *)
(***************************************************************************)
C9_BlankSendIsNoOp ==
    [][(SendAttempted /\ IsBlank(view.input)) => SendFrame]_vars

C9_Witness ==
    /\ attempts > 0
    /\ lastSend.blank /\ ~lastSend.busy
    /\ view.input = " \n"

(***************************************************************************)
(* C10: of the sendMessage invocations that run against one render's       *)
(* snapshot, only the first appends a user record and issues a request.    *)
(***************************************************************************)
C10_OneSendPerRender == sendsInRender <= 1

=============================================================================
